---------------------------- MODULE Spec2Model ----------------------------
(***************************************************************************)
(* A model of web-grabber's crawl engine: GrabHandler (setup, crawl,       *)
(* process_page, download_file, _save_html_content, _process_resources,    *)
(* _process_links), the URL helpers of BrowserAutomation and the fetch     *)
(* methods of NetworkHandler.                                              *)
(*                                                                         *)
(* A URL is a record [scheme, host, path]: host is the sequence of the     *)
(* labels of the netloc, path the sequence of the segments after each "/"  *)
(* ("https://example.com" has path <<>>, "https://example.com/" has the    *)
(* one empty segment).  A segment is [stem, ext]: the text before the last *)
(* dot and the extension after it.                                         *)
(***************************************************************************)
EXTENDS Naturals, Sequences, FiniteSets, TLC

\* ------------------------------------------------------------------ bounds
\* Largest number of worker threads a job is run with (crawl's "threads").
MaxThreads == 2
\* Number of runs (processes) on one output directory in the re-run model.
MaxRuns == 2

\* ------------------------------------------------------- program constants
MinImageBytes == 100
DefaultMaxDepth == 100

\* -------------------------------------------------------------- URL values
Seg(s, e) == [stem |-> s, ext |-> e]
NoSeg == Seg("", "")
Url(h, p) == [scheme |-> "https", host |-> h, path |-> p]
\* What a mailto: reference resolves to: not an http(s) URL.
MailtoUrl(p) == [scheme |-> "mailto", host |-> <<>>, path |-> p]

ExampleCom == <<"example", "com">>
SubExampleCom == <<"sub", "example", "com">>
OtherHost == <<"other", "host">>

SeedUrl == Url(ExampleCom, <<>>)
Page1Url == Url(ExampleCom, <<Seg("page1", "")>>)
Page2Url == Url(ExampleCom, <<Seg("page2", "")>>)
Page3Url == Url(ExampleCom, <<Seg("page3", "")>>)
PhotoUrl == Url(ExampleCom, <<Seg("a", ""), Seg("photo", "jpg")>>)
Photo2Url == Url(ExampleCom, <<Seg("b", ""), Seg("photo", "jpg")>>)
BannerUrl == Url(ExampleCom, <<Seg("a", ""), Seg("banner", "jpg")>>)
LogoUrl == Url(ExampleCom, <<Seg("logo", "png")>>)
TinyUrl == Url(ExampleCom, <<Seg("a", ""), Seg("tiny", "jpg")>>)
Tiny2Url == Url(ExampleCom, <<Seg("b", ""), Seg("tiny", "jpg")>>)
ReportUrl == Url(ExampleCom, <<Seg("docs", ""), Seg("report", "pdf")>>)
BrokenUrl == Url(ExampleCom, <<Seg("broken", "")>>)
DataUrl == Url(ExampleCom, <<Seg("data", "")>>)
OtherUrl == Url(OtherHost, <<Seg("path", "")>>)
CdnUrl == Url(OtherHost, <<Seg("cdn", "jpg")>>)
ClipUrl == Url(ExampleCom, <<Seg("clip", "mp4")>>)
PaperUrl == Url(ExampleCom, <<Seg("paper", "")>>)
SubUrl == Url(SubExampleCom, <<Seg("x", "")>>)

\* The URLs above in the order of their texts, which is the order sorted()
\* puts them in ("https://example.com" first, "/a/..." before "/b/...").
UrlOrder ==
  <<SeedUrl, BannerUrl, PhotoUrl, TinyUrl, Photo2Url,
    Tiny2Url, BrokenUrl, ClipUrl, DataUrl, ReportUrl, LogoUrl,
    Page1Url, Page2Url, Page3Url, PaperUrl, CdnUrl, OtherUrl, SubUrl>>

\* An href or src attribute as written in a page.  form is how the text
\* starts: "abs" (http:// or https://), "schemeRel" (//host/path), "rootRel"
\* (/path), "rel" (no scheme, no leading slash), "anchor" (#...), "mailto".
Href(f, h, p) == [form |-> f, host |-> h, path |-> p]
Abs(u) == Href("abs", u.host, u.path)
SchemeRel(u) == Href("schemeRel", u.host, u.path)
RootRel(u) == Href("rootRel", <<>>, u.path)

\* ---------------------------------------------------------- URL helpers
IsSuffix(s, t) ==
  /\ Len(s) <= Len(t)
  /\ \A i \in 1..Len(s) : s[i] = t[Len(t) - Len(s) + i]

\* NetworkHandler.extract_domain: urlparse(url).netloc
extract_domain(url) == url.host

\* The netloc urlparse gives for an href: none unless it names a host.
HrefNetloc(href) == IF href.form \in {"abs", "schemeRel"} THEN href.host ELSE <<>>

\* BrowserAutomation.is_valid_url
is_valid_url(base_url, href) ==
  IF href.form \in {"anchor", "mailto"} THEN FALSE
  ELSE IF href.form \in {"rootRel", "schemeRel"} THEN TRUE   \* startswith("/")
  ELSE \/ HrefNetloc(href) = base_url.host
       \/ /\ Len(HrefNetloc(href)) > Len(base_url.host)
          /\ IsSuffix(base_url.host, HrefNetloc(href))

\* urljoin of a relative reference: the base path without its last segment,
\* then the reference's segments.
UrlJoin(base_url, href) ==
  Url(base_url.host,
      (IF base_url.path = <<>> THEN <<>>
       ELSE SubSeq(base_url.path, 1, Len(base_url.path) - 1)) \o href.path)

\* BrowserAutomation.normalize_url (the fragment is not part of Href.path)
normalize_url(base_url, href) ==
  CASE href.form = "anchor" -> base_url          \* urljoin(base_url, "")
    [] href.form = "mailto" -> MailtoUrl(href.path)
    [] href.form = "schemeRel" -> Url(href.host, href.path)
    [] href.form = "abs" -> Url(href.host, href.path)
    [] href.form = "rootRel" -> Url(base_url.host, href.path)
    [] OTHER -> UrlJoin(base_url, href)

\* ------------------------------------------------------ resource types
WebExts == {"html", "htm", "xhtml", "php", "asp", "aspx", "jsp"}
ImageExts == {"jpg", "jpeg", "png", "gif", "svg", "webp", "bmp", "ico", "tif", "tiff"}
VideoExts == {"mp4", "webm", "avi", "mov", "wmv", "flv", "mkv", "ogv", "m4v"}
DocExts == {"pdf", "doc", "docx", "xls", "xlsx", "ppt", "pptx", "txt", "rtf",
            "csv", "odt", "ods", "odp", "epub", "mobi", "zip", "rar", "tar", "gz"}

Basename(url) == IF url.path = <<>> THEN NoSeg ELSE url.path[Len(url.path)]
\* os.path.splitext(path)[1]: the extension of the last segment
PathExt(url) == Basename(url).ext

\* The stems made of digits only (str.isdigit).
DigitStems == {"9182736"}
\* Which of the words "resume" and "cv" a piece of text holds.
WordsIn(s) ==
  CASE s = "resume" -> {"resume"}
    [] s = "my_cv" -> {"cv"}
    [] OTHER -> {}
UrlHasWord(url, w) ==
  \/ \E i \in 1..Len(url.host) : w \in WordsIn(url.host[i])
  \/ \E i \in 1..Len(url.path) : w \in WordsIn(url.path[i].stem)
\* Which of the words a piece of text starts with.
StartWords(s) ==
  CASE s = "resume" -> {"resume"}
    [] OTHER -> {}
\* "/resume" in url, "/cv" in url: the word right after a slash, at the
\* start of the host or of a path segment
UrlHasSlashWord(url, w) ==
  \/ url.host # <<>> /\ w \in StartWords(url.host[1])
  \/ \E i \in 1..Len(url.path) : w \in StartWords(url.path[i].stem)
\* "/documents/" in url: a directory segment named documents
UrlHasDir(url, d) ==
  \E i \in 1..Len(url.path) : i < Len(url.path) /\ url.path[i] = Seg(d, "")

\* str.lower on an extension
Lower(s) ==
  CASE s = "JPG" -> "jpg"
    [] s = "PDF" -> "pdf"
    [] OTHER -> s

\* get_file_type without the numeric-filename heuristic: a .pdf URL is a
\* document whatever its file name.
GetFileTypeNoHeuristic(url) ==
  LET ext == Lower(PathExt(url)) IN
  IF ext = "" \/ ext \in WebExts THEN "html"
  ELSE IF ext \in ImageExts THEN "images"
  ELSE IF ext \in VideoExts THEN "videos"
  ELSE IF ext \in DocExts THEN "documents"
  ELSE IF UrlHasSlashWord(url, "resume") \/ UrlHasSlashWord(url, "cv")
          \/ UrlHasDir(url, "documents") THEN "documents"
  ELSE "html"

\* BrowserAutomation.get_file_type
get_file_type(url) ==
  LET ext == Lower(PathExt(url)) IN
  IF ext = "" \/ ext \in WebExts THEN "html"
  ELSE IF ext \in ImageExts THEN "images"
  ELSE IF ext \in VideoExts THEN "videos"
  ELSE IF ext \in DocExts THEN
    IF ext = "pdf" /\ (UrlHasWord(url, "resume") \/ UrlHasWord(url, "cv")
                        \/ UrlHasDir(url, "documents"))
      THEN "documents"
    ELSE IF ext # "pdf" THEN "documents"
    ELSE IF Basename(url).stem \in DigitStems THEN "html"
    ELSE "documents"
  ELSE IF UrlHasSlashWord(url, "resume") \/ UrlHasSlashWord(url, "cv")
          \/ UrlHasDir(url, "documents") THEN "documents"
  ELSE "html"

\* ------------------------------------------------------------ contents
\* A body is [head, size, anchors, imgs, videos]: head tells how its text
\* starts ("html": <!doctype html or <html; "markup": another HTML marker in
\* the first 1000 characters; "pdf": %PDF-; "jpeg"; "text"; "none" when
\* empty), size its length in bytes, and anchors, imgs, videos the href/src
\* attributes of its a, img and video tags.
Body(h, n, a, i) == [head |-> h, size |-> n, anchors |-> a, imgs |-> i, videos |-> {}]
EmptyBody == Body("none", 0, {}, {})
HtmlPage(a, i) == Body("html", 2000, a, i)

\* A response is a status and a body.
Ok(b) == [status |-> 200, body |-> b]
Status(n) == [status |-> n, body |-> EmptyBody]

\* GrabHandler._is_valid_html
is_valid_html(content) ==
  /\ content.size > 0
  /\ content.head # "pdf"
  /\ content.head \in {"html", "markup"}

Resource(t, u) == [type |-> t, url |-> u]

\* The test of get_resources on a .pdf link: a word of the filename or a
\* directory of the path marks it as a document.
PdfLinkWanted(url) ==
  \/ WordsIn(Basename(url).stem) # {}
  \/ Basename(url).stem \in {"document"}
  \/ \E i \in 1..Len(url.path) - 2 :
        url.path[i] = Seg("assets", "") /\ url.path[i + 1] = Seg("documents", "")
  \/ UrlHasDir(url, "docs") \/ UrlHasDir(url, "publications")

\* BrowserAutomation.get_resources: img and video sources, and the links
\* whose URL is a document.
get_resources(base_url, content) ==
  {Resource("images", normalize_url(base_url, s)) : s \in content.imgs}
  \cup {Resource("videos", normalize_url(base_url, s)) : s \in content.videos}
  \cup {Resource("documents", normalize_url(base_url, h)) :
          h \in {a \in content.anchors :
                  LET u == normalize_url(base_url, a) IN
                  /\ get_file_type(u) = "documents"
                  /\ (PathExt(u) = "pdf" => PdfLinkWanted(u))}}

\* BrowserAutomation.get_page_links
get_page_links(base_url, content) ==
  {normalize_url(base_url, a) : a \in {h \in content.anchors : is_valid_url(base_url, h)}}

\* --------------------------------------------------------------- sites
\* What the web answers to a GET of url.  A site is fixed for a job and for
\* its re-runs ("an unchanged set of responses").
Jpeg(n) == Body("jpeg", n, {}, {})

MeshSite(url) ==
  CASE url = SeedUrl ->
         Ok(HtmlPage({Abs(Page1Url), RootRel(Page2Url), SchemeRel(OtherUrl)},
                     {RootRel(PhotoUrl)}))
    [] url = Page1Url ->
         Ok(HtmlPage({Abs(SeedUrl), Abs(Page2Url)}, {Abs(BannerUrl)}))
    [] url = Page2Url ->
         Ok(HtmlPage({Abs(SeedUrl), RootRel(LogoUrl)}, {RootRel(BannerUrl)}))
    [] url \in {PhotoUrl, BannerUrl, LogoUrl} -> Ok(Jpeg(5000))
    [] OTHER -> Status(404)

\* A site whose two pages embed images of the same file name, both too
\* small to be images.
TwinSite(url) ==
  CASE url = SeedUrl -> Ok(HtmlPage({Abs(Page1Url), RootRel(Page2Url)}, {}))
    [] url = Page1Url -> Ok(HtmlPage({}, {Abs(TinyUrl)}))
    [] url = Page2Url -> Ok(HtmlPage({}, {RootRel(Tiny2Url)}))
    [] url \in {TinyUrl, Tiny2Url} -> Ok(Jpeg(50))
    [] OTHER -> Status(404)

\* The seed links one image and one page, and that page links back to the
\* seed.
LoopSite(url) ==
  CASE url = SeedUrl -> Ok(HtmlPage({Abs(Page1Url)}, {RootRel(PhotoUrl)}))
    [] url = Page1Url -> Ok(HtmlPage({Abs(SeedUrl)}, {}))
    [] url = PhotoUrl -> Ok(Jpeg(5000))
    [] OTHER -> Status(404)

\* The seed links three pages that link and embed nothing.
TrioSite(url) ==
  CASE url = SeedUrl ->
         Ok(HtmlPage({Abs(Page1Url), Abs(Page2Url), RootRel(Page3Url)}, {}))
    [] url \in {Page1Url, Page2Url, Page3Url} -> Ok(HtmlPage({}, {}))
    [] OTHER -> Status(404)

\* The seed embeds an image of another host.
CdnSite(url) ==
  CASE url = SeedUrl -> Ok(HtmlPage({}, {Abs(CdnUrl)}))
    [] url = CdnUrl -> Ok(Jpeg(5000))
    [] OTHER -> Status(404)

\* The seed has a video as the source of an img tag and links a URL
\* without extension that answers with a PDF.
KindsSite(url) ==
  CASE url = SeedUrl -> Ok(HtmlPage({RootRel(PaperUrl)}, {RootRel(ClipUrl)}))
    [] url = ClipUrl -> Ok(Body("mp4", 9000, {}, {}))
    [] url = PaperUrl -> Ok(Body("pdf", 3000, {}, {}))
    [] OTHER -> Status(404)

FailSite(url) ==
  CASE url = SeedUrl ->
         Ok(HtmlPage({RootRel(BrokenUrl), RootRel(DataUrl), Abs(ReportUrl),
                      RootRel(Page1Url)},
                     {RootRel(TinyUrl), RootRel(PhotoUrl)}))
    [] url = Page1Url -> Ok(HtmlPage({}, {RootRel(Photo2Url)}))
    [] url = BrokenUrl -> Status(500)
    [] url = DataUrl -> Ok(Body("text", 300, {}, {}))
    [] url = ReportUrl -> Ok(Body("html", 800, {}, {}))
    [] url = TinyUrl -> Ok(Jpeg(50))
    [] url \in {PhotoUrl, Photo2Url} -> Ok(Jpeg(5000))
    [] OTHER -> Status(404)

Sites == {"mesh", "twin", "loop", "trio", "fail", "cdn", "kinds"}
Respond(site, url) ==
  CASE site = "mesh" -> MeshSite(url)
    [] site = "twin" -> TwinSite(url)
    [] site = "loop" -> LoopSite(url)
    [] site = "trio" -> TrioSite(url)
    [] site = "fail" -> FailSite(url)
    [] site = "cdn" -> CdnSite(url)
    [] site = "kinds" -> KindsSite(url)

\* ---------------------------------------------------------------- disk
\* A file path under the output directory: the directory ("html" or the
\* resource type under files/), the stem and extension of the file name, and
\* a tag that is <<>> or the hash of a URL the name was built from.
Path(d, s, e, t) == [dir |-> d, stem |-> s, ext |-> e, tag |-> t]
File(p, b) == [path |-> p, head |-> b.head, size |-> b.size]

Exists(files, p) == \E f \in files : f.path = p
FileAt(files, p) == CHOOSE f \in files : f.path = p
Remove(files, p) == {f \in files : f.path # p}
Write(files, p, b) == Remove(files, p) \cup {File(p, b)}
Rename(files, p, q) ==
  IF Exists(files, p)
    THEN Remove(Remove(files, p), q)
         \cup {[path |-> q, head |-> FileAt(files, p).head, size |-> FileAt(files, p).size]}
    ELSE files

\* re.sub(r"[^\w\-.]", "_", filename) on the stems of this model
Sanitize(s) == IF s = "my photo" THEN "my_photo" ELSE s
\* filename.split(".")[0]
FirstPiece(s) == IF s = "archive.tar" THEN "archive" ELSE s

\* BrowserAutomation.validate_downloaded_file, as <<valid, files left>>
validate_downloaded_file(files, file_path, resource_type) ==
  IF ~Exists(files, file_path) THEN <<FALSE, files>>
  ELSE LET f == FileAt(files, file_path) IN
    IF resource_type = "images" /\ f.size < MinImageBytes
      THEN <<FALSE, Remove(files, file_path)>>
    ELSE IF /\ resource_type \in {"documents", "images", "videos"}
            /\ f.size > 0
            /\ f.head = "html"
      THEN <<FALSE, Remove(files, file_path)>>
    ELSE IF resource_type = "documents" /\ file_path.ext = "pdf" /\ f.head # "pdf"
      THEN <<FALSE, Remove(files, file_path)>>
    ELSE <<TRUE, files>>

\* --------------------------------------------------------------- state
VARIABLES
  job,              \* the arguments of setup() and crawl(): site, seed, threads, ...
  run,              \* which run (process) on the output directory this is
  already_visited,  \* GrabHandler.already_visited
  to_visit,         \* GrabHandler.to_visit
  failed_urls,      \* GrabHandler.failed_urls
  resource_count,   \* GrabHandler.resource_count
  network_handler,  \* TRUE while GrabHandler.network_handler is set
  browser_handler,  \* GrabHandler.browser_handler: "none" or the kind of browser
  disk,             \* the files under the output directory
  failed_file,      \* failed_urls.txt: <<>> when absent, else <<its lines>>
  spc,              \* where crawl() is: "loop", "wait", "close", "save", "done"
  queue,            \* the submitted process_page tasks no thread has started
  pc,               \* per worker thread: where its process_page call is
  cur,              \* per worker thread: the url argument of process_page
  content,          \* per worker thread: html_content
  resq,             \* per worker thread: the resources not yet looped over
  linkq,            \* per worker thread: the links not yet looped over
  dl,               \* per worker thread: the frame of its download_file call
  fetches,          \* history: per URL, the GET requests issued in this run
  claims,           \* history: per URL, the times it was added as unvisited
  invoked,          \* history: the URLs process_page was called with in this run
  pending_ever,     \* history: the URLs ever put into to_visit in this run
  empty_pages,      \* history: the html-typed URLs whose page fetch came back empty
  written,          \* history: [run, url, path] of every file written
  accepted,         \* history: [url, path, type, how] of what this run took as saved
  previous,         \* history: <<>> or <<what the run before this one left>>
  page_fetches,     \* history: the URLs process_page called get_page_content for
  skipped,          \* history: [url, seen] of the calls that returned at the gate; seen: url was visited
  classified,       \* a call of get_file_type on its own: [url, result]
  other,            \* the frontier of a second GrabHandler of the process
  net               \* NetworkHandler.get on its own: the clock, last_request_time, callers

vars == <<job, run, already_visited, to_visit, failed_urls, resource_count,
          network_handler, browser_handler, disk, failed_file, spc, queue, pc, cur, content,
          resq, linkq, dl, fetches, claims, invoked, pending_ever, empty_pages,
          written, accepted, previous, page_fetches, skipped, classified, other, net>>
frontier == <<already_visited, to_visit, failed_urls, resource_count>>
locals == <<cur, content, resq, linkq, dl>>
history == <<fetches, claims, invoked, pending_ever, empty_pages, written,
             accepted, previous, page_fetches, skipped>>

Types == {"html", "images", "documents", "videos"}
NoUrl == [scheme |-> "", host |-> <<>>, path |-> <<>>]
NoPath == Path("", "", "", <<>>)
NoDl == [url |-> NoUrl, type |-> "", path |-> NoPath, success |-> FALSE,
         stored |-> EmptyBody, ret |-> "", result |-> "", seen |-> 0,
         declared |-> ""]
Threads == 1..MaxThreads
Workers == 1..job.threads

Count(f, u) == IF u \in DOMAIN f THEN f[u] ELSE 0
Bump(f, u) == [v \in DOMAIN f \cup {u} |-> Count(f, v) + (IF v = u THEN 1 ELSE 0)]
NoCounts == [u \in {} |-> 0]

\* hash(url) % 10000: one value per URL and process (str hashes are seeded
\* per process); two URLs are given different values.
Hash(url) == <<run, url>>

\* ------------------------------------------------------------- setup
Job(site, threads, depth, restrict, retry) ==
  [site |-> site, seed |-> SeedUrl, threads |-> threads, max_depth |-> depth,
   restrict_domain |-> restrict, retry_failed |-> retry,
   browser |-> "none", browser_starts |-> TRUE]

\* GrabHandler._load_failed_urls: the lines read from failed_urls.txt
load_failed_urls(file) ==
  IF file = <<>> THEN {} ELSE {file[1][i] : i \in DOMAIN file[1]}

\* GrabHandler.setup, "Set up browser automation": the browser asked for
\* with --camoufox or --selenium, and BrowserAutomation() in its place when
\* its constructor raises.
setup_browser(j) ==
  IF j.browser = "none" THEN "none"
  ELSE IF j.browser_starts THEN j.browser
  ELSE "standard"

\* GrabHandler.setup: the state a run starts crawl() from; the files of
\* the output directory are whatever earlier runs left.
setup(j, r, files, file) ==
  [job |-> j, run |-> r,
   already_visited |-> {},
   to_visit |-> {j.seed},
   failed_urls |-> (IF j.retry_failed THEN load_failed_urls(file) ELSE {}),
   resource_count |-> [t \in Types |-> 0],
   network_handler |-> TRUE,
   browser_handler |-> setup_browser(j),
   disk |-> files, failed_file |-> file,
   spc |-> "loop", queue |-> {},
   pc |-> [w \in Threads |-> "idle"],
   cur |-> [w \in Threads |-> NoUrl],
   content |-> [w \in Threads |-> EmptyBody],
   resq |-> [w \in Threads |-> {}],
   linkq |-> [w \in Threads |-> {}],
   dl |-> [w \in Threads |-> NoDl],
   pending_ever |-> {j.seed}]

\* The first run of a job: a new GrabHandler, setup(), an empty directory.
FirstRun(j) ==
  LET s == setup(j, 1, {}, <<>>) IN
  /\ job = s.job /\ run = s.run
  /\ already_visited = s.already_visited /\ to_visit = s.to_visit
  /\ failed_urls = s.failed_urls /\ resource_count = s.resource_count
  /\ network_handler = s.network_handler
  /\ browser_handler = s.browser_handler
  /\ disk = s.disk /\ failed_file = s.failed_file
  /\ spc = s.spc /\ queue = s.queue /\ pc = s.pc /\ cur = s.cur
  /\ content = s.content /\ resq = s.resq /\ linkq = s.linkq /\ dl = s.dl
  /\ fetches = NoCounts /\ claims = NoCounts /\ invoked = {}
  /\ pending_ever = s.pending_ever /\ empty_pages = {}
  /\ written = {} /\ accepted = {} /\ previous = <<>>
  /\ page_fetches = {} /\ skipped = {}

SmallDepth == 3
\* The default --depth on the sites where pages of one wave share
\* resources, with and without the domain restriction; a small --depth on
\* the two small sites; the site of three plain pages per thread count,
\* with the default --depth and with --depth 2.
Jobs ==
  {Job(s, n, DefaultMaxDepth, r, FALSE) :
     s \in Sites \ {"trio"}, n \in Threads, r \in BOOLEAN}
DepthJobs ==
  {Job(s, n, SmallDepth, r, FALSE) :
     s \in {"twin", "fail"}, n \in Threads, r \in BOOLEAN}
TrioJobs ==
  {Job("trio", n, d, TRUE, FALSE) : n \in Threads, d \in {2, DefaultMaxDepth}}

\* --depth 2 on the site of the seed, one image and one page
ScenarioJobs == {Job("loop", n, 2, r, FALSE) : n \in Threads, r \in BOOLEAN}

\* --camoufox and --selenium, with a browser that starts and one whose
\* constructor raises
BrowserJobs ==
  {[Job("loop", 1, DefaultMaxDepth, TRUE, FALSE)
      EXCEPT !.browser = b, !.browser_starts = k] :
     b \in {"camoufox", "selenium"}, k \in BOOLEAN}

\* No call of get_file_type apart from those the crawl makes.
NoClassify == [url |-> NoUrl, result |-> "none"]

\* No call of NetworkHandler.get apart from those the crawl makes.
NoNet == [now |-> 0, last_request_time |-> 0, at |-> <<>>, wake |-> <<>>,
          calls |-> <<>>, starts |-> <<>>]

\* GrabHandler.__init__: the frontier of a handler setup() was not called on
NewHandler ==
  [already_visited |-> {}, to_visit |-> {}, failed_urls |-> {},
   resource_count |-> [t \in Types |-> 0]]

Init ==
  /\ \E j \in Jobs \cup DepthJobs \cup TrioJobs \cup ScenarioJobs \cup BrowserJobs :
       FirstRun(j)
  /\ classified = NoClassify
  /\ other = NewHandler
  /\ net = NoNet

\* ------------------------------------------------- GrabHandler helpers
\* list(self.to_visit)[0] if self.to_visit else None: a set has no first
\* element, the one listed first is any of them.
InitialUrls == IF to_visit = {} THEN {NoUrl} ELSE to_visit

\* A gate without the test of len(already_visited) against max_depth: the
\* variant DepthTwoScenario has to tell apart from the code's gate.
ShouldProcessAnyDepth(url, initial_url) ==
  /\ url.scheme \in {"http", "https"}
  /\ url \notin already_visited
  /\ (job.restrict_domain /\ initial_url # NoUrl)
       => extract_domain(url) = extract_domain(initial_url)

\* GrabHandler._should_process_url, for the initial_url it picked
should_process_url(url, initial_url) ==
  /\ url.scheme \in {"http", "https"}
  /\ url \notin already_visited
  /\ ~(job.max_depth # 0 /\ Cardinality(already_visited) >= job.max_depth)
  /\ (job.restrict_domain /\ initial_url # NoUrl)
       => extract_domain(url) = extract_domain(initial_url)

\* GrabHandler._detect_content_type on the str that get_page_content
\* returns: after the %PDF- test it calls str.startswith with bytes, which
\* raises TypeError.
detect_content_type(c) == IF c.head = "pdf" THEN "documents" ELSE "TypeError"

DefaultExt(t) ==
  CASE t = "images" -> "jpg" [] t = "videos" -> "mp4"
    [] t = "documents" -> "pdf" [] OTHER -> "html"
KeptExts(t) ==
  CASE t = "images" -> {"jpg", "jpeg", "png", "gif", "svg", "webp", "bmp", "ico"}
    [] t = "videos" -> {"mp4", "webm", "avi", "mov", "wmv", "flv", "mkv"}
    [] t = "documents" -> {"pdf", "doc", "docx", "xls", "xlsx", "txt"}
    [] OTHER -> {}
TypeDir(t) == t

\* A download_file that keeps the type it was called with: the variant
\* ReclassificationWins has to tell apart from the code's re-check.
DeclaredType(url, resource_type) == resource_type

\* download_file: the resource type after the re-check of the URL
download_type(url, resource_type) ==
  LET detected == get_file_type(url) IN
  IF detected # resource_type /\ detected # "skip" THEN detected ELSE resource_type

\* download_file: file_path, from the URL's file name or its hash
download_path(url, t) ==
  LET f == Basename(url) IN
  IF f.ext = ""
    THEN Path(TypeDir(t), "", DefaultExt(t), Hash(url))
  ELSE IF t # "html" /\ f.ext \notin KeptExts(t)
    THEN Path(TypeDir(t), Sanitize(FirstPiece(f.stem)), DefaultExt(t), <<>>)
  ELSE Path(TypeDir(t), Sanitize(f.stem), f.ext, <<>>)

\* parsed_url.path.strip("/").split("/")[-1]
LastPart(url) ==
  LET named == {i \in 1..Len(url.path) : url.path[i] # NoSeg} IN
  IF named = {} THEN NoSeg
  ELSE url.path[CHOOSE i \in named : \A k \in named : k <= i]

\* _save_html_content: the type it hands the URL to download_file with,
\* or "html" when it saves the page itself
save_route(url, html) ==
  LET f == LastPart(url) IN
  IF get_file_type(url) # "html" THEN get_file_type(url)
  ELSE IF ~is_valid_html(html) THEN "documents"
  ELSE IF f.ext \in {"pdf", "doc", "docx", "xls", "xlsx", "ppt", "pptx"} THEN "documents"
  ELSE IF f.ext \in {"jpg", "jpeg", "png", "gif", "webp", "svg"} THEN "images"
  ELSE IF f.ext \in {"mp4", "webm", "avi", "mov", "wmv", "flv"} THEN "videos"
  ELSE "html"

\* _save_html_content: file_path, with the URL's hash added to the name
\* when a file of that name exists
save_path(files, url) ==
  LET f == LastPart(url)
      name == IF f = NoSeg THEN Seg("index", "html")
              ELSE IF f.ext = "" THEN Seg(f.stem, "html")
              ELSE IF f.ext \in {"html", "htm"} THEN f
              ELSE Seg(FirstPiece(f.stem), "html")
      p == Path("html", Sanitize(name.stem), name.ext, <<>>)
  IN IF Exists(files, p) THEN [p EXCEPT !.tag = Hash(url)] ELSE p

\* NetworkHandler.get_page_content: html_content ("" unless the status is
\* 200) and the resources found in it
get_page_content(url) ==
  LET r == Respond(job.site, url) IN
  IF r.status # 200 THEN <<EmptyBody, {}>>
  ELSE <<r.body, get_resources(url, r.body)>>

\* The order the resources dict is looped over in: images, videos, documents.
TypeRank(t) == CASE t = "images" -> 1 [] t = "videos" -> 2 [] OTHER -> 3
NextResources(q) == {r \in q : \A o \in q : TypeRank(r.type) <= TypeRank(o.type)}

\* ------------------------------------------------------------- crawl
Min(a, b) == IF a <= b THEN a ELSE b
Busy == \E w \in Workers : pc[w] # "idle"

\* A crawl loop that submits the batch but leaves it in to_visit: the
\* variant CrawlTerminates has to tell apart from the code's loop.
PopKeeps ==
  /\ spc = "loop"
  /\ to_visit # {}
  /\ \E batch \in SUBSET to_visit :
       /\ Cardinality(batch) = Min(job.threads * 2, Cardinality(to_visit))
       /\ queue' = batch
  /\ spc' = "wait"
  /\ UNCHANGED <<job, run, browser_handler, classified, other, net, frontier, network_handler, disk, failed_file, pc,
                 locals, history>>

\* A crawl loop that submits all of to_visit as one batch: the variant
\* WaveSizeBound has to tell apart from the code's loop.
PopAll ==
  /\ spc = "loop"
  /\ to_visit # {}
  /\ to_visit' = {}
  /\ queue' = to_visit
  /\ spc' = "wait"
  /\ UNCHANGED <<job, run, browser_handler, classified, other, net, already_visited, failed_urls, resource_count,
                 network_handler, disk, failed_file, pc, locals, history>>

\* crawl: the batch is popped off to_visit and submitted to the pool
Pop ==
  /\ spc = "loop"
  /\ to_visit # {}
  /\ \E batch \in SUBSET to_visit :
       /\ Cardinality(batch) = Min(job.threads * 2, Cardinality(to_visit))
       /\ to_visit' = to_visit \ batch
       /\ queue' = batch
  /\ spc' = "wait"
  /\ UNCHANGED <<job, run, browser_handler, classified, other, net, already_visited, failed_urls, resource_count,
                 network_handler, disk, failed_file, pc, locals, history>>

\* A crawl loop that does not wait for the futures of the batch: the
\* variant WaveBarrier has to tell apart from the code's loop.
JoinEarly ==
  /\ spc = "wait"
  /\ spc' = "loop"
  /\ UNCHANGED <<job, run, browser_handler, classified, other, net, frontier, network_handler, disk,
                 failed_file, queue, pc, locals, history>>

\* crawl: every future of the batch has returned
Join ==
  /\ spc = "wait"
  /\ queue = {}
  /\ ~Busy
  /\ spc' = "loop"
  /\ UNCHANGED <<job, run, browser_handler, classified, other, net, frontier, network_handler, disk, failed_file, queue,
                 pc, locals, history>>

\* crawl: the loop is left and the finally clause closes the handler
CloseHandler ==
  /\ spc = "loop"
  /\ to_visit = {}
  /\ network_handler' = FALSE
  /\ spc' = "save"
  /\ UNCHANGED <<job, run, browser_handler, classified, other, net, frontier, disk, failed_file, queue, pc, locals, history>>

\* sorted(self.failed_urls): the URLs one after the other, in text order
sorted(urls) ==
  LET listed(u) == u \in urls IN SelectSeq(UrlOrder, listed)

\* GrabHandler._save_failed_urls
save_failed_urls ==
  /\ spc = "save"
  /\ failed_file' = (IF failed_urls = {} THEN failed_file ELSE <<sorted(failed_urls)>>)
  /\ spc' = "done"
  /\ UNCHANGED <<job, run, browser_handler, classified, other, net, frontier, network_handler, disk, queue, pc, locals,
                 history>>

\* A pool thread takes a submitted task and calls process_page(url).
StartTask(w) ==
  /\ spc \in {"wait", "unwind"}
  /\ pc[w] = "idle"
  /\ \A v \in Workers : v < w => pc[v] # "idle"
  /\ \E u \in queue :
       /\ queue' = queue \ {u}
       /\ cur' = [cur EXCEPT ![w] = u]
       /\ invoked' = invoked \cup {u}
  /\ pc' = [pc EXCEPT ![w] = "gate"]
  /\ UNCHANGED <<job, run, browser_handler, classified, other, net, frontier, network_handler, disk, failed_file, spc,
                 content, resq, linkq, dl, fetches, claims, pending_ever,
                 empty_pages, written, accepted, previous, page_fetches, skipped>>

\* A process_page that adds the URL to already_visited before it asks the
\* gate: the variant GateRejectionNoOp has to tell apart from the code's
\* order.
GateAfterAdd(w) ==
  /\ pc[w] = "gate"
  /\ already_visited' = already_visited \cup {cur[w]}
  /\ \E i \in InitialUrls :
       IF should_process_url(cur[w], i)
       THEN /\ pc' = [pc EXCEPT ![w] = "claim"]
            /\ skipped' = skipped
       ELSE /\ pc' = [pc EXCEPT ![w] = "idle"]
            /\ skipped' = skipped \cup {[url |-> cur[w], seen |-> cur[w] \in already_visited]}
  /\ UNCHANGED <<job, run, browser_handler, classified, other, net, to_visit, failed_urls,
                 resource_count, network_handler, disk, failed_file, spc,
                 queue, locals, fetches, claims, invoked, pending_ever, empty_pages,
                 written, accepted, previous, page_fetches>>

\* process_page: the gate, _should_process_url(url)
Gate(w) ==
  /\ pc[w] = "gate"
  /\ \E i \in InitialUrls :
       IF should_process_url(cur[w], i)
       THEN /\ pc' = [pc EXCEPT ![w] = "claim"]
            /\ skipped' = skipped
       ELSE /\ pc' = [pc EXCEPT ![w] = "idle"]
            /\ skipped' = skipped \cup {[url |-> cur[w], seen |-> cur[w] \in already_visited]}
  /\ UNCHANGED <<job, run, browser_handler, classified, other, net, frontier, network_handler, disk, failed_file, spc,
                 queue, locals, fetches, claims, invoked, pending_ever, empty_pages,
                 written, accepted, previous, page_fetches>>

\* process_page: self.already_visited.add(url)
Claim(w) ==
  /\ pc[w] = "claim"
  /\ already_visited' = already_visited \cup {cur[w]}
  /\ claims' = Bump(claims, cur[w])
  /\ pc' = [pc EXCEPT ![w] = "fetch"]
  /\ UNCHANGED <<job, run, browser_handler, classified, other, net, to_visit, failed_urls, resource_count, network_handler,
                 disk, failed_file, spc, queue, locals, fetches, invoked,
                 pending_ever, empty_pages, written, accepted, previous, page_fetches, skipped>>

\* What the run takes as saved: download_file returned True for url with
\* file_path path ("existing" when the path was there, "stored" when it
\* was downloaded and kept), or _save_html_content wrote the page.
Accepted(url, path, t, how) == [url |-> url, path |-> path, type |-> t, how |-> how]

Call(url, t, ret) ==
  [NoDl EXCEPT !.url = url, !.type = t, !.declared = t, !.ret = ret]

\* process_page: what follows get_page_content, as <<next step, frame>>
AfterFetch(url, html) ==
  LET t == get_file_type(url) IN
  IF t # "html" /\ t # "skip" THEN <<"dl", Call(url, t, "end")>>
  ELSE IF html.size > 0 THEN
    IF is_valid_html(html) THEN <<"save", NoDl>>
    ELSE IF detect_content_type(html) = "TypeError" THEN <<"except", NoDl>>
    ELSE IF detect_content_type(html) # "html"
      THEN <<"dl", Call(url, detect_content_type(html), "res")>>
    ELSE <<"save", NoDl>>
  ELSE <<"res", NoDl>>

\* process_page: get_page_content, then the routing on what came back
Fetch(w) ==
  /\ pc[w] = "fetch"
  /\ LET got == get_page_content(cur[w])
         next == AfterFetch(cur[w], got[1])
     IN /\ content' = [content EXCEPT ![w] = got[1]]
        /\ resq' = [resq EXCEPT ![w] = got[2]]
        /\ linkq' = [linkq EXCEPT ![w] = get_page_links(cur[w], got[1])]
        /\ pc' = [pc EXCEPT ![w] = next[1]]
        /\ dl' = [dl EXCEPT ![w] = next[2]]
        /\ empty_pages' = IF got[1].size = 0 /\ get_file_type(cur[w]) = "html"
                            THEN empty_pages \cup {cur[w]} ELSE empty_pages
  /\ fetches' = Bump(fetches, cur[w])
  /\ page_fetches' = page_fetches \cup {cur[w]}
  /\ UNCHANGED <<job, run, browser_handler, classified, other, net, frontier, network_handler, disk, failed_file, spc,
                 queue, cur, claims, invoked, pending_ever, written, accepted, previous,
                 skipped>>

\* A process_page whose exception ends the crawl: what is submitted or
\* pending is dropped. The variant FailuresNonFatal has to tell apart from
\* the code's handler.
ExceptAborts(w) ==
  /\ pc[w] = "except"
  /\ failed_urls' = failed_urls \cup {cur[w]}
  /\ to_visit' = {}
  /\ queue' = {}
  /\ pc' = [pc EXCEPT ![w] = "idle"]
  /\ UNCHANGED <<job, run, browser_handler, classified, other, net, already_visited, resource_count,
                 network_handler, disk, failed_file, spc, locals, history>>

\* process_page: except Exception: self.failed_urls.add(url)
Except(w) ==
  /\ pc[w] = "except"
  /\ failed_urls' = failed_urls \cup {cur[w]}
  /\ pc' = [pc EXCEPT ![w] = "idle"]
  /\ UNCHANGED <<job, run, browser_handler, classified, other, net, already_visited, to_visit, resource_count,
                 network_handler, disk, failed_file, spc, queue, locals, history>>

Ret(w) == IF dl[w].ret = "end" THEN "idle" ELSE "res"

\* _save_html_content up to the choice of file_path
SaveCheck(w) ==
  /\ pc[w] = "save"
  /\ LET route == save_route(cur[w], content[w]) IN
     IF route # "html"
       THEN /\ dl' = [dl EXCEPT ![w] = Call(cur[w], route, "res")]
            /\ pc' = [pc EXCEPT ![w] = "dl"]
       ELSE /\ dl' = [dl EXCEPT ![w] = [NoDl EXCEPT !.url = cur[w], !.type = "html",
                                            !.path = save_path(disk, cur[w])]]
            /\ pc' = [pc EXCEPT ![w] = "save_write"]
  /\ UNCHANGED <<job, run, browser_handler, classified, other, net, frontier, network_handler, disk, failed_file, spc,
                 queue, cur, content, resq, linkq, history>>

\* _save_html_content: the page is written, and resource_count["html"] is
\* read for the += 1
SaveWrite(w) ==
  /\ pc[w] = "save_write"
  /\ disk' = Write(disk, dl[w].path, content[w])
  /\ dl' = [dl EXCEPT ![w] = [@ EXCEPT !.seen = resource_count["html"]]]
  /\ written' = written \cup {[run |-> run, url |-> cur[w], path |-> dl[w].path]}
  /\ accepted' = accepted \cup {Accepted(cur[w], dl[w].path, "html", "stored")}
  /\ pc' = [pc EXCEPT ![w] = "count"]
  /\ UNCHANGED <<job, run, browser_handler, classified, other, net, frontier, network_handler, failed_file, spc, queue,
                 cur, content, resq, linkq, fetches, claims, invoked,
                 pending_ever, empty_pages, previous, page_fetches, skipped>>

\* A download_file without the test of the target path: the variant
\* ExistingPathShortCircuit has to tell apart from the code's early return.
DownloadCheckAlways(w) ==
  /\ pc[w] = "dl"
  /\ LET t == download_type(dl[w].url, dl[w].type)
         p == download_path(dl[w].url, t)
     IN /\ dl' = [dl EXCEPT ![w] = [@ EXCEPT !.type = t, !.path = p]]
        /\ pc' = [pc EXCEPT ![w] = "dl_net"]
  /\ UNCHANGED <<job, run, browser_handler, classified, other, net, frontier, network_handler, disk, failed_file, spc,
                 queue, cur, content, resq, linkq, fetches, claims, invoked,
                 pending_ever, empty_pages, written, accepted, previous, page_fetches, skipped>>

\* download_file up to "if file_path.exists(): return True"
DownloadCheck(w) ==
  /\ pc[w] = "dl"
  /\ LET t == download_type(dl[w].url, dl[w].type)
         p == download_path(dl[w].url, t)
     IN IF Exists(disk, p)
          THEN /\ dl' = [dl EXCEPT ![w] = [@ EXCEPT !.type = t, !.path = p, !.result = "True"]]
               /\ accepted' = accepted \cup {Accepted(dl[w].url, p, t, "existing")}
               /\ pc' = [pc EXCEPT ![w] = Ret(w)]
          ELSE /\ dl' = [dl EXCEPT ![w] = [@ EXCEPT !.type = t, !.path = p]]
               /\ pc' = [pc EXCEPT ![w] = "dl_net"]
               /\ UNCHANGED accepted
  /\ UNCHANGED <<job, run, browser_handler, classified, other, net, frontier, network_handler, disk, failed_file, spc,
                 queue, cur, content, resq, linkq, fetches, claims, invoked,
                 pending_ever, empty_pages, written, previous, page_fetches, skipped>>

\* NetworkHandler.download_file: the GET, and the body written to file_path
\* when the status is 2xx
DownloadNet(w) ==
  /\ pc[w] = "dl_net"
  /\ LET r == Respond(job.site, dl[w].url) IN
     IF r.status = 200
       THEN /\ disk' = Write(disk, dl[w].path, r.body)
            /\ dl' = [dl EXCEPT ![w] = [@ EXCEPT !.success = TRUE, !.stored = r.body]]
            /\ written' = written \cup {[run |-> run, url |-> dl[w].url, path |-> dl[w].path]}
       ELSE /\ dl' = [dl EXCEPT ![w] = [@ EXCEPT !.success = FALSE]]
            /\ UNCHANGED <<disk, written>>
  /\ fetches' = Bump(fetches, dl[w].url)
  /\ pc' = [pc EXCEPT ![w] = "dl_done"]
  /\ UNCHANGED <<job, run, browser_handler, classified, other, net, frontier, network_handler, failed_file, spc, queue,
                 cur, content, resq, linkq, claims, invoked, pending_ever,
                 empty_pages, accepted, previous, page_fetches, skipped>>

\* self.resource_count[resource_type] += 1, the store: the value that was
\* read, plus one. The read and the store are separate steps of the
\* interpreter, and other threads run between them.
Increment(w) ==
  /\ pc[w] = "count"
  /\ resource_count' = [resource_count EXCEPT ![dl[w].type] = dl[w].seen + 1]
  /\ pc' = [pc EXCEPT ![w] = Ret(w)]
  /\ UNCHANGED <<job, run, browser_handler, classified, other, net, already_visited, to_visit, failed_urls, network_handler,
                 disk, failed_file, spc, queue, locals, history>>

\* download_file after the download: the .html rename, the validation, and
\* failed_urls or the read of the counter
DownloadFinish(w) ==
  /\ pc[w] = "dl_done"
  /\ LET d == dl[w]
         renames == d.success /\ d.type = "html" /\ d.path.ext # "html"
         p == IF renames THEN [d.path EXCEPT !.ext = "html"] ELSE d.path
         files == IF renames THEN Rename(disk, d.path, p) ELSE disk
         v == validate_downloaded_file(files, p, d.type)
         counts == /\ ~(renames /\ ~Exists(disk, d.path))
                   /\ ~(Exists(files, p) /\ ~v[1])
                   /\ d.success
     IN /\ pc' = [pc EXCEPT ![w] = IF counts THEN "count" ELSE Ret(w)]
        /\ accepted' = IF counts
                         THEN accepted \cup {Accepted(d.url, p, d.type, "stored")}
                         ELSE accepted
        /\ IF renames /\ ~Exists(disk, d.path)          \* os.rename raises
             THEN /\ failed_urls' = failed_urls \cup {d.url}
                  /\ dl' = [dl EXCEPT ![w] = [@ EXCEPT !.result = "False"]]
                  /\ UNCHANGED disk
           ELSE IF Exists(files, p) /\ ~v[1]
             THEN /\ disk' = v[2]
                  /\ failed_urls' = failed_urls \cup {d.url}
                  /\ dl' = [dl EXCEPT ![w] = [@ EXCEPT !.path = p, !.result = "False"]]
           ELSE IF d.success
             THEN /\ disk' = files
                  /\ dl' = [dl EXCEPT ![w] = [@ EXCEPT !.path = p, !.result = "True",
                                                       !.seen = resource_count[d.type]]]
                  /\ UNCHANGED failed_urls
           ELSE /\ disk' = files
                /\ failed_urls' = failed_urls \cup {d.url}
                /\ dl' = [dl EXCEPT ![w] = [@ EXCEPT !.path = p, !.result = "False"]]
  /\ UNCHANGED <<job, run, browser_handler, classified, other, net, already_visited, to_visit, resource_count,
                 network_handler, failed_file, spc, queue, cur, content, resq,
                 linkq, fetches, claims, invoked, pending_ever, empty_pages,
                 written, previous, page_fetches, skipped>>

\* A _process_resources that gives the page up when a download of it
\* returned False: the variant PartialFailuresKept has to tell apart from
\* the code's loop.
ProcessResourcesAborts(w) ==
  /\ pc[w] = "res"
  /\ IF dl[w].result = "False"
       THEN /\ pc' = [pc EXCEPT ![w] = "idle"]
            /\ UNCHANGED <<resq, dl>>
       ELSE IF resq[w] = {}
         THEN /\ pc' = [pc EXCEPT ![w] = "links"]
              /\ UNCHANGED <<resq, dl>>
         ELSE \E r \in NextResources(resq[w]) :
                /\ resq' = [resq EXCEPT ![w] = @ \ {r}]
                /\ IF r.url \in already_visited
                     THEN UNCHANGED <<pc, dl>>
                     ELSE /\ pc' = [pc EXCEPT ![w] = "res_claim"]
                          /\ dl' = [dl EXCEPT ![w] = Call(r.url, r.type, "res")]
  /\ UNCHANGED <<job, run, browser_handler, classified, other, net, frontier, network_handler, disk,
                 failed_file, spc, queue, cur, content, linkq, history>>

\* _process_resources: the next resource, skipped when already visited
ProcessResources(w) ==
  /\ pc[w] = "res"
  /\ IF resq[w] = {}
       THEN /\ pc' = [pc EXCEPT ![w] = "links"]
            /\ UNCHANGED <<resq, dl>>
       ELSE \E r \in NextResources(resq[w]) :
              /\ resq' = [resq EXCEPT ![w] = @ \ {r}]
              /\ IF r.url \in already_visited
                   THEN UNCHANGED <<pc, dl>>
                   ELSE /\ pc' = [pc EXCEPT ![w] = "res_claim"]
                        /\ dl' = [dl EXCEPT ![w] = Call(r.url, r.type, "res")]
  /\ UNCHANGED <<job, run, browser_handler, classified, other, net, frontier, network_handler, disk, failed_file, spc,
                 queue, cur, content, linkq, history>>

\* _process_resources: self.already_visited.add(url)
ResourceClaim(w) ==
  /\ pc[w] = "res_claim"
  /\ already_visited' = already_visited \cup {dl[w].url}
  /\ claims' = Bump(claims, dl[w].url)
  /\ pc' = [pc EXCEPT ![w] = "dl"]
  /\ UNCHANGED <<job, run, browser_handler, classified, other, net, to_visit, failed_urls, resource_count, network_handler,
                 disk, failed_file, spc, queue, locals, fetches, invoked,
                 pending_ever, empty_pages, written, accepted, previous, page_fetches, skipped>>

\* _process_links: one link of the loop; process_page returns after the last
ProcessLinks(w) ==
  /\ pc[w] = "links"
  /\ IF linkq[w] = {}
       THEN /\ pc' = [pc EXCEPT ![w] = "idle"]
            /\ UNCHANGED <<linkq, to_visit, pending_ever>>
       ELSE \E link \in linkq[w] :
              /\ linkq' = [linkq EXCEPT ![w] = @ \ {link}]
              /\ pc' = pc
              /\ IF link \in already_visited \/ link \in to_visit
                   THEN UNCHANGED <<to_visit, pending_ever>>
                   ELSE \E i \in InitialUrls :
                          IF should_process_url(link, i)
                            THEN /\ to_visit' = to_visit \cup {link}
                                 /\ pending_ever' = pending_ever \cup {link}
                            ELSE UNCHANGED <<to_visit, pending_ever>>
  /\ UNCHANGED <<job, run, browser_handler, classified, other, net, already_visited, failed_urls, resource_count,
                 network_handler, disk, failed_file, spc, queue, cur, content,
                 resq, dl, fetches, claims, invoked, empty_pages, written, accepted, previous, page_fetches, skipped>>

Next ==
  \/ Pop
  \/ Join
  \/ CloseHandler
  \/ save_failed_urls
  \/ \E w \in Workers : StartTask(w)
  \/ \E w \in Workers : Gate(w)
  \/ \E w \in Workers : Claim(w)
  \/ \E w \in Workers : Fetch(w)
  \/ \E w \in Workers : Except(w)
  \/ \E w \in Workers : SaveCheck(w)
  \/ \E w \in Workers : SaveWrite(w)
  \/ \E w \in Workers : DownloadCheck(w)
  \/ \E w \in Workers : DownloadNet(w)
  \/ \E w \in Workers : DownloadFinish(w)
  \/ \E w \in Workers : Increment(w)
  \/ \E w \in Workers : ProcessResources(w)
  \/ \E w \in Workers : ResourceClaim(w)
  \/ \E w \in Workers : ProcessLinks(w)

Spec == Init /\ [][Next]_vars

\* While crawl() or a thread of its pool can take a step, one of them does.
Fairness == WF_vars(Next)
FairSpec == Spec /\ Fairness

\* ------------------------------------------------- exceptional exit
\* crawl: time.sleep(delay) at the end of a wave raises (ValueError for a
\* negative delay, KeyboardInterrupt): the finally clause closes the
\* handler and the exception leaves crawl(), past _save_failed_urls().
LoopRaises ==
  /\ spc = "loop"
  /\ invoked # {}
  /\ network_handler' = FALSE
  /\ spc' = "raised"
  /\ UNCHANGED <<job, run, browser_handler, classified, other, net, frontier, disk, failed_file, queue,
                 pc, locals, history>>

\* A finally clause that runs before the pool has been shut down: the
\* variant BackendLifetime has to tell apart from the with block inside
\* the try.
WaitRaisesCloses ==
  /\ spc = "wait"
  /\ spc' = "unwind"
  /\ network_handler' = FALSE
  /\ UNCHANGED <<job, run, browser_handler, classified, other, net, frontier, disk, failed_file, queue,
                 pc, locals, history>>

\* crawl: the wait for the batch is left by an exception that is not an
\* Exception (KeyboardInterrupt in future.result()); the with block of the
\* executor is left first, and its shutdown(wait=True) lets the submitted
\* tasks run to their end.
WaitRaises ==
  /\ spc = "wait"
  /\ spc' = "unwind"
  /\ UNCHANGED <<job, run, browser_handler, classified, other, net, frontier, network_handler, disk,
                 failed_file, queue, pc, locals, history>>

\* crawl: the executor has shut down, the finally clause closes the
\* handler and the exception leaves crawl()
ExecutorExit ==
  /\ spc = "unwind"
  /\ queue = {}
  /\ ~Busy
  /\ network_handler' = FALSE
  /\ spc' = "raised"
  /\ UNCHANGED <<job, run, browser_handler, classified, other, net, frontier, disk, failed_file, queue,
                 pc, locals, history>>

NextAbort == Next \/ LoopRaises \/ WaitRaises \/ ExecutorExit
SpecAbort == Init /\ [][NextAbort]_vars

\* ----------------------------------------------------------- re-runs
\* The command is run again on the same output directory: a new process, a
\* new GrabHandler, setup() with the same URL and retry_failed on or off.
Rerun ==
  /\ spc = "done"
  /\ run < MaxRuns
  /\ \E retry \in BOOLEAN :
       LET s == setup([job EXCEPT !.retry_failed = retry], run + 1, disk, failed_file) IN
       /\ job' = s.job /\ run' = s.run
       /\ already_visited' = s.already_visited /\ to_visit' = s.to_visit
       /\ failed_urls' = s.failed_urls /\ resource_count' = s.resource_count
       /\ network_handler' = s.network_handler
       /\ browser_handler' = s.browser_handler
       /\ disk' = s.disk /\ failed_file' = s.failed_file
       /\ spc' = s.spc /\ queue' = s.queue /\ pc' = s.pc /\ cur' = s.cur
       /\ content' = s.content /\ resq' = s.resq /\ linkq' = s.linkq /\ dl' = s.dl
       /\ pending_ever' = s.pending_ever
  /\ fetches' = NoCounts /\ claims' = NoCounts /\ invoked' = {} /\ empty_pages' = {}
  /\ accepted' = {} /\ page_fetches' = {} /\ skipped' = {}
  /\ previous' = <<[count |-> resource_count, disk |-> disk,
                     failed_urls |-> failed_urls]>>
  /\ UNCHANGED <<written, classified, other, net>>

RerunJobs == {Job(s, n, DefaultMaxDepth, TRUE, FALSE) : s \in Sites, n \in Threads}
InitRerun ==
  /\ \E j \in RerunJobs : FirstRun(j)
  /\ classified = NoClassify
  /\ other = NewHandler
  /\ net = NoNet
NextRerun == Next \/ Rerun
SpecRerun == InitRerun /\ [][NextRerun]_vars

\* ------------------------------------------------- a second handler
\* A second GrabHandler in the same process, crawling the site of three
\* plain pages on its own thread while the first one crawls the site of
\* the failing downloads.
OtherSeeds == {SeedUrl, Page1Url}
OtherJob(u) == [Job("trio", 1, DefaultMaxDepth, TRUE, FALSE) EXCEPT !.seed = u]

\* The frontier of a handler after setup(): the fields setup() resets
Frontier(s) ==
  [already_visited |-> s.already_visited, to_visit |-> s.to_visit,
   failed_urls |-> s.failed_urls, resource_count |-> s.resource_count]

\* A setup() whose sets and counters are module-level names shared by the
\* handlers: the variant JobIsolation has to tell apart from the attributes
\* of self.
OtherSetupGlobal ==
  /\ \E u \in OtherSeeds :
       LET s == setup(OtherJob(u), 1, {}, <<>>) IN
       /\ other' = Frontier(s)
       /\ already_visited' = s.already_visited /\ to_visit' = s.to_visit
       /\ failed_urls' = s.failed_urls /\ resource_count' = s.resource_count
  /\ UNCHANGED <<job, run, browser_handler, classified, net, network_handler,
                 disk, failed_file, spc, queue, pc, locals, history>>

\* setup() on the second handler: "Reset state" of self
OtherSetup ==
  /\ \E u \in OtherSeeds : other' = Frontier(setup(OtherJob(u), 1, {}, <<>>))
  /\ UNCHANGED <<job, run, browser_handler, classified, net, frontier,
                 network_handler, disk, failed_file, spc, queue, pc, locals,
                 history>>

\* The links of a page the second handler puts into its to_visit
OtherLinks(url, html, visited, pending) ==
  {l \in get_page_links(url, html) :
     /\ l \notin visited /\ l \notin pending
     /\ l.scheme \in {"http", "https"}
     /\ extract_domain(l) = extract_domain(url)}

\* crawl() and process_page() on the second handler, a page at a time: the
\* URL popped off its to_visit, claimed, fetched, saved and counted when it
\* is valid HTML, and its links queued.
OtherProcessPage ==
  /\ \E u \in other.to_visit :
       LET r == Respond("trio", u)
           html == IF r.status = 200 THEN r.body ELSE EmptyBody
           visited == other.already_visited \cup {u}
           pending == other.to_visit \ {u}
       IN other' =
            IF u \in other.already_visited
              THEN [other EXCEPT !.to_visit = pending]
            ELSE IF is_valid_html(html)
              THEN [other EXCEPT
                      !.already_visited = visited,
                      !.to_visit = pending \cup OtherLinks(u, html, visited, pending),
                      !.resource_count = [@ EXCEPT !["html"] = @ + 1]]
            ELSE [other EXCEPT !.already_visited = visited, !.to_visit = pending]
  /\ UNCHANGED <<job, run, browser_handler, classified, net, frontier,
                 network_handler, disk, failed_file, spc, queue, pc, locals,
                 history>>

PairInit ==
  /\ FirstRun(Job("fail", 1, DefaultMaxDepth, TRUE, FALSE))
  /\ classified = NoClassify
  /\ other = NewHandler
  /\ net = NoNet
NextPair == Next \/ OtherSetup \/ OtherProcessPage
SpecPair == PairInit /\ [][NextPair]_vars

\* -------------------------------------------------- the rate limit
\* NetworkHandler.get called by the worker threads that share the handler,
\* on a clock of half-delays: delay_between_requests is the default 0.5 s,
\* which setup() never overrides.
Delay == 2
MaxClock == 6
MaxCalls == 2

RateInit ==
  /\ FirstRun(Job("loop", MaxThreads, DefaultMaxDepth, TRUE, FALSE))
  /\ classified = NoClassify
  /\ other = NewHandler
  /\ net = [now |-> 1, last_request_time |-> 0,
            at |-> [t \in Threads |-> "idle"],
            wake |-> [t \in Threads |-> 0],
            calls |-> [t \in Threads |-> 0],
            starts |-> <<>>]

\* time.time() moves on
Tick ==
  /\ net.now < MaxClock
  /\ net' = [net EXCEPT !.now = @ + 1]
  /\ UNCHANGED <<job, run, browser_handler, classified, other, frontier,
                 network_handler, disk, failed_file, spc, queue, pc, locals,
                 history>>

\* _respect_rate_limits up to time.sleep: last_request_time and the clock
\* are read with no lock held
RespectRateLimits(t) ==
  /\ net.at[t] = "idle" /\ net.calls[t] < MaxCalls
  /\ LET elapsed == net.now - net.last_request_time IN
     IF net.last_request_time > 0 /\ elapsed < Delay
       THEN net' = [net EXCEPT !.at[t] = "sleep",
                               !.wake[t] = net.now + (Delay - elapsed)]
       ELSE net' = [net EXCEPT !.at[t] = "send"]
  /\ UNCHANGED <<job, run, browser_handler, classified, other, frontier,
                 network_handler, disk, failed_file, spc, queue, pc, locals,
                 history>>

\* time.sleep(delay - elapsed) returns
Wake(t) ==
  /\ net.at[t] = "sleep" /\ net.now >= net.wake[t]
  /\ net' = [net EXCEPT !.at[t] = "send"]
  /\ UNCHANGED <<job, run, browser_handler, classified, other, frontier,
                 network_handler, disk, failed_file, spc, queue, pc, locals,
                 history>>

\* get: self.last_request_time = time.time(), then session.get starts
Get(t) ==
  /\ net.at[t] = "send"
  /\ net' = [net EXCEPT !.at[t] = "idle", !.calls[t] = @ + 1,
                        !.last_request_time = net.now,
                        !.starts = Append(@, net.now)]
  /\ UNCHANGED <<job, run, browser_handler, classified, other, frontier,
                 network_handler, disk, failed_file, spc, queue, pc, locals,
                 history>>

NextRate ==
  \/ Tick
  \/ \E t \in Threads : RespectRateLimits(t)
  \/ \E t \in Threads : Wake(t)
  \/ \E t \in Threads : Get(t)
SpecRate == RateInit /\ [][NextRate]_vars

\* =============================================================== claims

\* C1: no double-fetch: within a run every URL is claimed into
\* already_visited once and a request for it is started at most once.
NoDoubleFetch ==
  \A u \in DOMAIN claims \cup DOMAIN fetches :
    Count(claims, u) <= 1 /\ Count(fetches, u) <= 1

\* C2: already_visited and to_visit are disjoint at every point of a run.
FrontierDisjoint == already_visited \cap to_visit = {}

InSeedDomain(u) ==
  \/ u.host = job.seed.host
  \/ Len(u.host) > Len(job.seed.host) /\ IsSuffix(job.seed.host, u.host)

\* C3: with restrict_domain set, no URL whose host is neither the seed's
\* host nor a subdomain of it is ever in to_visit.
DomainRestriction == job.restrict_domain => \A u \in to_visit : InSeedDomain(u)

\* A run that follows another one has finished setup() and dispatched nothing.
RetryRunReady ==
  /\ previous # <<>>
  /\ job.retry_failed
  /\ spc = "loop"
  /\ invoked = {}

\* C4: round trip of the failure list: after setup() with retry_failed on a
\* directory whose failed_urls.txt lists A and B, to_visit holds A and B
\* before the first wave.
RetryRoundTrip == RetryRunReady => load_failed_urls(failed_file) \subseteq to_visit

\* C5: when the run has ended, every dispatched html-typed URL whose page
\* fetch came back empty is in failed_urls and listed in failed_urls.txt.
FailuresListed ==
  spc = "done" =>
    \A u \in empty_pages :
      u \in failed_urls /\ u \in load_failed_urls(failed_file)

\* C6: failed_urls is a subset of already_visited at every point of a run,
\* also of a run set up with retry_failed.
FailedSubsetVisited == failed_urls \subseteq already_visited

\* The URL had a file on disk when the run before this one ended.
PersistedBefore(u) ==
  \E y \in written :
    y.run = run - 1 /\ y.url = u /\ Exists(previous[1].disk, y.path)

\* C7: idempotent re-run: the second run of a job ends with the
\* resource_count of the first and writes no file for a URL whose file the
\* first run left on disk.
IdempotentRerun ==
  (spc = "done" /\ previous # <<>>) =>
    /\ resource_count = previous[1].count
    /\ \A x \in written : x.run = run => ~PersistedBefore(x.url)

\* GrabHandler.get_summary
get_summary ==
  [visited_urls |-> Cardinality(already_visited),
   failed_urls |-> Cardinality(failed_urls),
   resources |-> resource_count]

\* C8: crawl() terminates on every finite site: to_visit becomes empty, the
\* loop is left and the run ends, with cycles of links and failed fetches.
CrawlTerminates == <>(spc = "done" /\ to_visit = {} /\ ~Busy)

\* A run of the site whose pages link back to the seed has ended, with a
\* page behind the cycle visited and a page fetch that failed.
TerminatedWitness ==
  /\ spc = "done"
  /\ job.site = "mesh"
  /\ {SeedUrl, Page1Url, Page2Url} \subseteq already_visited
  /\ empty_pages # {}
  /\ get_summary.visited_urls > 3

\* C9: failures are not fatal: at every wave boundary each URL that left
\* to_visit has had process_page called, and when the run has ended each
\* URL that was ever in to_visit has, whatever failed meanwhile.
FailuresNonFatal ==
  /\ spc \in {"loop", "save", "done"} => (pending_ever \ to_visit) \subseteq invoked
  /\ spc = "done" => pending_ever \subseteq invoked

\* process_page(DataUrl) raised and a download failed, and the URLs queued
\* beside them were processed all the same.
NonFatalWitness ==
  /\ spc = "done"
  /\ job.site = "fail"
  /\ {DataUrl, TinyUrl, ReportUrl} \subseteq failed_urls
  /\ {BrokenUrl, Page1Url} \subseteq already_visited

\* validate_downloaded_file's grounds for rejecting a file of type t at
\* path p with body b
Rejected(t, p, b) ==
  \/ t = "images" /\ b.size < MinImageBytes
  \/ t \in {"documents", "images", "videos"} /\ b.size > 0 /\ b.head = "html"
  \/ t = "documents" /\ p.ext = "pdf" /\ b.head # "pdf"

\* C10: validator rejection: a download_file call that stored a file the
\* validation rejects ends with the file gone, the URL in failed_urls, the
\* result False and resource_count as it was.
ValidatorRejection ==
  [][\A w \in Workers :
       (/\ pc[w] = "dl_done"
        /\ pc'[w] # "dl_done"
        /\ dl[w].success
        /\ Rejected(dl[w].type, dl[w].path, dl[w].stored))
       => /\ ~Exists(disk', dl[w].path)
          /\ dl[w].url \in failed_urls'
          /\ dl'[w].result = "False"
          /\ pc'[w] # "count"]_vars

\* The job of the scenario: the seed, one image, one page that links back,
\* and a max depth of 2.
Scenario == job.site = "loop" /\ job.max_depth = 2

\* C11: in the scenario the run ends, and ends with a summary of 2 visited
\* URLs and 1 image, the seed having been fetched once.
DepthTwoScenario ==
  Scenario =>
    <>(/\ spc = "done"
       /\ get_summary.visited_urls = 2
       /\ get_summary.resources["images"] = 1
       /\ Count(fetches, SeedUrl) = 1)

\* The scenario's run has ended: the seed and its image are the visited
\* URLs, the image is on disk, and the linked page was refused by the gate.
ScenarioWitness ==
  /\ Scenario
  /\ spc = "done"
  /\ already_visited = {SeedUrl, PhotoUrl}
  /\ resource_count["images"] = 1
  /\ Page1Url \notin pending_ever

\* The thread has tested already_visited for a URL and has not yet added
\* the URL: it is inside a check-then-insert on the set.
InFrontierUpdate(w) == pc[w] \in {"claim", "res_claim"}

\* C12: mutual exclusion: no two workers are inside a check-then-insert on
\* the frontier's sets at the same time.
FrontierExclusion ==
  \A v, w \in Workers : v # w => ~(InFrontierUpdate(v) /\ InFrontierUpdate(w))

\* C13: within a run no resource_count[type] ever goes down, whatever the
\* interleaving of the workers that increment it.
CountsMonotone ==
  [][\A t \in Types : resource_count'[t] >= resource_count[t]]_vars

\* The browser selected for the run failed to initialize during setup().
SetupFailed == job.browser # "none" /\ ~job.browser_starts

\* C14: setup errors are fatal: after a setup() in which the selected
\* backend failed to initialize, no URL is fetched.
SetupErrorsFatal == SetupFailed => fetches = NoCounts

\* crawl() has ended, by returning or with an exception.
CrawlEnded == spc \in {"done", "raised"}

\* The lines of failed_urls.txt are in sorted order, none of them twice.
SortedLines(lines) ==
  \A i, k \in DOMAIN lines :
    i < k => \E a, b \in DOMAIN UrlOrder :
               a < b /\ UrlOrder[a] = lines[i] /\ UrlOrder[b] = lines[k]

\* C15: when crawl() of a first run ends, failed_urls.txt exists exactly
\* when failed_urls is non-empty, and its lines are the URLs of
\* failed_urls, sorted, on every way the loop can end.
FailedListFlushed ==
  (CrawlEnded /\ run = 1) =>
    /\ failed_file # <<>> <=> failed_urls # {}
    /\ failed_file # <<>> =>
         /\ load_failed_urls(failed_file) = failed_urls
         /\ Len(failed_file[1]) = Cardinality(failed_urls)
         /\ SortedLines(failed_file[1])

\* C16: path uniqueness: within a run no two source URLs are persisted at
\* one file path: whatever the run took as saved for two different URLs
\* is at two different paths.
PathsUnique ==
  \A x, y \in accepted : x.path = y.path => x.url = y.url

\* ------------------------------------------------- get_file_type alone
\* The URLs get_file_type is called with: two hosts, no directory or one
\* of four, file names with and without digits-only stems, and extensions
\* of every list of the function, of none, and in upper case.
XCom == <<"x", "com">>
ClassifyDirs == {<<>>, <<Seg("a", "")>>, <<Seg("documents", "")>>,
                 <<Seg("docs", "")>>, <<Seg("resume", "")>>}
ClassifyStems == {"page", "photo", "report", "9182736", "my_cv"}
ClassifyExts == {"", "html", "php", "jpg", "JPG", "png", "mp4", "pdf", "PDF",
                 "zip", "docx", "xyz"}
ClassifyUrls ==
  {Url(h, d \o <<Seg(n, e)>>) :
     h \in {XCom, ExampleCom}, d \in ClassifyDirs, n \in ClassifyStems,
     e \in ClassifyExts}

ClassifyInit ==
  /\ FirstRun(Job("loop", 1, DefaultMaxDepth, TRUE, FALSE))
  /\ \E u \in ClassifyUrls : classified = [url |-> u, result |-> "none"]
  /\ other = NewHandler
  /\ net = NoNet

\* file_type = BrowserAutomation.get_file_type(url)
Classify ==
  /\ classified.result = "none"
  /\ classified' = [classified EXCEPT !.result = get_file_type(classified.url)]
  /\ UNCHANGED <<job, run, browser_handler, other, net, frontier, network_handler, disk,
                 failed_file, spc, queue, pc, locals, history>>

SpecClassify == ClassifyInit /\ [][Classify]_vars

\* What the classification of a URL by its extension is to be, given the
\* extension in lower case, whether the file name is digits only, and
\* whether the URL holds one of the document-like patterns.
Returned == classified.result # "none"
LowExt == Lower(PathExt(classified.url))
NumericPdf == LowExt = "pdf" /\ Basename(classified.url).stem \in DigitStems
DocumentLike ==
  \/ UrlHasWord(classified.url, "resume") \/ UrlHasWord(classified.url, "cv")
  \/ UrlHasDir(classified.url, "documents")
Examples ==
  /\ classified.url = Url(XCom, <<Seg("a", ""), Seg("photo", "jpg")>>)
       => classified.result = "images"
  /\ classified.url = Url(XCom, <<Seg("documents", ""), Seg("report", "pdf")>>)
       => classified.result = "documents"
  /\ classified.url = Url(XCom, <<Seg("9182736", "pdf")>>)
       => classified.result = "html"
  /\ classified.url = Url(XCom, <<Seg("page", "")>>)
       => classified.result = "html"

\* C17 as stated: classification by URL: html for no extension or a
\* web-page extension, images for an image extension, videos for a video
\* extension, documents for a document or archive extension, except that
\* every .pdf URL with a digits-only file name is html; and the four
\* examples.
ClassifiedByExtension ==
  Returned =>
    /\ (LowExt = "" \/ LowExt \in WebExts) => classified.result = "html"
    /\ LowExt \in ImageExts => classified.result = "images"
    /\ LowExt \in VideoExts => classified.result = "videos"
    /\ (LowExt \in DocExts /\ ~NumericPdf) => classified.result = "documents"
    /\ NumericPdf => classified.result = "html"
    /\ Examples

\* C17: classification by URL: as above, except that a .pdf URL with a
\* digits-only file name is html only when the URL holds none of resume,
\* cv and /documents/, and is documents when it holds one.
ClassifiedByExtensionAndPattern ==
  Returned =>
    /\ (LowExt = "" \/ LowExt \in WebExts) => classified.result = "html"
    /\ LowExt \in ImageExts => classified.result = "images"
    /\ LowExt \in VideoExts => classified.result = "videos"
    /\ (LowExt \in DocExts /\ ~(NumericPdf /\ ~DocumentLike))
         => classified.result = "documents"
    /\ (NumericPdf /\ ~DocumentLike) => classified.result = "html"
    /\ Examples

\* A digits-only .pdf URL under /documents/ has been classified, and one
\* without a pattern has.
NumericPdfClassified ==
  /\ Returned /\ NumericPdf
  /\ \/ DocumentLike /\ classified.result = "documents"
     \/ ~DocumentLike /\ classified.result = "html"

\* C18: the dedup gate is claimed before dispatch: a URL is in
\* already_visited from the moment its process_page task is submitted,
\* that is, while the task waits in the pool and when a thread starts it.
ClaimedBeforeDispatch ==
  /\ \A u \in queue : u \in already_visited
  /\ \A w \in Workers : pc[w] = "gate" => cur[w] \in already_visited

\* C19: wave barrier: tasks are only submitted when every task of the wave
\* before has completed, and what is submitted was in to_visit then: a URL
\* put into to_visit during a wave is not dispatched before that wave's
\* tasks are all done.
WaveBarrier ==
  [][queue' \ queue # {} =>
       /\ queue = {} /\ \A w \in Workers : pc[w] = "idle"
       /\ queue' \subseteq to_visit]_vars

\* A URL that a task of the first wave put into to_visit has been
\* submitted in a later wave.
LaterWaveDispatched ==
  /\ spc = "wait"
  /\ job.seed \in already_visited
  /\ \E u \in queue : u # job.seed /\ u \in pending_ever

\* The URLs process_page takes as resources themselves.
IsResourceUrl(u) == get_file_type(u) \notin {"html", "skip"}

\* C20: a non-HTML resource URL is routed directly: once process_page has
\* claimed such a URL it is in download_file for that URL and returns
\* after it, it loops over no resources and no links, and when
\* download_file is entered no request for the URL has been issued.
RoutedDirectly ==
  \A w \in Workers :
    (IsResourceUrl(cur[w]) /\ pc[w] \notin {"idle", "gate", "claim", "fetch"}) =>
      /\ pc[w] \in {"dl", "dl_net", "dl_done", "count"}
      /\ dl[w].url = cur[w] /\ dl[w].ret = "end"
      /\ pc[w] = "dl" => fetches[cur[w]] = 0

\* C21: embedded resources are admitted by the rule of links: when
\* _process_resources takes a resource as unvisited the depth budget is not
\* exhausted, and with restrict_domain no request is made for an embedded
\* resource whose host is neither the seed's nor a subdomain of it.
ResourcesAdmitted ==
  [][\A w \in Workers :
       /\ (pc[w] = "res_claim" /\ pc'[w] = "dl") =>
            ~(job.max_depth # 0 /\ Cardinality(already_visited) >= job.max_depth)
       /\ (pc[w] = "dl_net" /\ pc'[w] = "dl_done" /\ dl[w].url # cur[w]
              /\ job.restrict_domain) =>
            InSeedDomain(dl[w].url)]_vars

\* The artifacts of a type the run accepted: downloaded and validated, or
\* saved as HTML.
Artifacts(t) == {x \in accepted : x.type = t /\ x.how = "stored"}

\* C22: the counters are exact: when a run has ended, resource_count of
\* every type is the number of artifacts of that type accepted in the run.
CountersExact ==
  spc = "done" => \A t \in Types : resource_count[t] = Cardinality(Artifacts(t))

\* The task of worker w has returned, its page was taken and was valid
\* HTML, and the download of one of the page's embedded resources failed.
ResourceFailedOn(w) ==
  /\ pc[w] = "idle" /\ cur[w] \in already_visited
  /\ is_valid_html(get_page_content(cur[w])[1])
  /\ \E r \in get_page_content(cur[w])[2] : r.url \in failed_urls

\* A link was offered to the frontier: it is or was pending or visited, or
\* the gate refused it for the depth budget or the domain.
Offered(link) ==
  \/ link \in already_visited \cup pending_ever
  \/ job.max_depth # 0 /\ Cardinality(already_visited) >= job.max_depth
  \/ job.restrict_domain /\ \E i \in pending_ever : link.host # i.host

\* C23: partial resource failures do not abort the page: when the download
\* of an embedded resource of a page failed, the page's other resources
\* are still attempted, its links are still offered to the frontier, and
\* the page is not in failed_urls.
PartialFailuresKept ==
  \A w \in Workers :
    ResourceFailedOn(w) =>
      /\ \A r \in get_page_content(cur[w])[2] : r.url \in already_visited
      /\ \A link \in get_page_links(cur[w], get_page_content(cur[w])[1]) :
           Offered(link)
      /\ cur[w] \notin failed_urls

\* A page with a failed embedded image has returned, with another of its
\* images stored and one of its links pending or visited.
PartialFailureWitness ==
  \E w \in Workers :
    /\ ResourceFailedOn(w)
    /\ \E x \in accepted :
         /\ x.how = "stored"
         /\ \E r \in get_page_content(cur[w])[2] : r.url = x.url
    /\ \E link \in get_page_links(cur[w], get_page_content(cur[w])[1]) :
         link \in pending_ever

\* The type download_file is to use for a call: the URL's type when it
\* differs from the declared one and is not skip, else the declared one.
UsedType(d) ==
  IF get_file_type(d.url) # d.declared /\ get_file_type(d.url) # "skip"
    THEN get_file_type(d.url) ELSE d.declared

\* C24: re-classification wins: in every call of download_file that got
\* past the existing-path test, the resource type validated against and
\* the directory of the target path are those of UsedType, and the store
\* of the call's increment changes the counter of that type only.
ReclassificationWins ==
  [][\A w \in Workers :
       (dl[w].declared # "" /\ pc[w] \in {"dl_net", "dl_done", "count"}) =>
         /\ dl[w].type = UsedType(dl[w])
         /\ dl[w].path.dir = UsedType(dl[w])
         /\ (pc[w] = "count" /\ pc'[w] # "count") =>
              \A t \in Types \ {UsedType(dl[w])} :
                resource_count'[t] = resource_count[t]]_vars

\* A download declared with one type is counted under another.
ReclassifiedWitness ==
  \E w \in Workers :
    /\ pc[w] = "count" /\ dl[w].declared # ""
    /\ dl[w].type # dl[w].declared

\* C25: existing-path short-circuit: when the resolved target path of a
\* download_file call already exists, the call returns True in that step
\* with no request issued and with the disk, failed_urls and
\* resource_count unchanged.
ExistingPathShortCircuit ==
  [][\A w \in Workers :
       (pc[w] = "dl" /\ pc'[w] # "dl" /\ Exists(disk, dl'[w].path)) =>
         /\ pc'[w] = Ret(w) /\ dl'[w].result = "True"
         /\ fetches' = fetches /\ disk' = disk
         /\ failed_urls' = failed_urls
         /\ resource_count' = resource_count]_vars

\* A download_file call has returned at the existing-path test.
ExistingPathWitness ==
  \E w \in Workers, x \in accepted :
    /\ x.how = "existing" /\ x.url = dl[w].url /\ x.path = dl[w].path
    /\ dl[w].result = "True" /\ Count(fetches, x.url) = 0

\* C26: wave size bound: a batch is formed of at most
\* min(2 * threads, |to_visit|) URLs, |to_visit| taken when it is formed,
\* each of them a distinct URL popped off to_visit.
WaveSizeBound ==
  [][(spc = "loop" /\ spc' = "wait") =>
       /\ Cardinality(queue') <= Min(2 * job.threads, Cardinality(to_visit))
       /\ queue' \subseteq to_visit
       /\ Cardinality(queue') = Cardinality(to_visit) - Cardinality(to_visit')]_vars

\* A batch of 2 * threads URLs was formed with more URLs left pending.
WaveCutWitness ==
  /\ spc = "wait" /\ \A w \in Workers : pc[w] = "idle"
  /\ Cardinality(queue) = 2 * job.threads
  /\ to_visit # {}

\* A worker whose page content went to _detect_content_type: non-empty
\* content that is not valid HTML, at a URL that is not typed as a resource.
Sniffed(w) ==
  /\ pc[w] \notin {"idle", "gate", "claim", "fetch"}
  /\ get_file_type(cur[w]) \in {"html", "skip"}
  /\ content[w].size > 0 /\ ~is_valid_html(content[w])

\* C27: the content-sniff classifier is total: every content handed to
\* _detect_content_type gets one of images, documents or html and nothing
\* is raised, so the page goes on to its handler instead of the except
\* branch of process_page that marks it failed.
SniffTotal ==
  \A w \in Workers :
    Sniffed(w) =>
      /\ detect_content_type(content[w]) \in {"images", "documents", "html"}
      /\ pc[w] # "except"
      /\ cur[w] \notin failed_urls

\* C28: the fetch port gives back empty html for what it cannot use: the
\* html that get_page_content returned for a worker's URL is empty unless
\* the response had status 200 and a body that is valid HTML.
FetchPortEmptyOnFailure ==
  \A w \in Workers :
    pc[w] \notin {"idle", "gate", "claim", "fetch"} =>
      LET r == Respond(job.site, cur[w]) IN
      (r.status # 200 \/ ~is_valid_html(r.body)) => content[w] = EmptyBody

\* C29: job isolation: a step that changes the frontier of one GrabHandler
\* leaves the frontier of the other as it was, and so does setup() on
\* either of them.
JobIsolation ==
  [][/\ other' # other => frontier' = frontier
     /\ frontier' # frontier => other' = other]_vars

\* Both handlers are in the middle of their crawls, each with its own
\* visited pages, and setup() was called on the second one again.
JobIsolationWitness ==
  /\ spc = "wait" /\ already_visited # {}
  /\ Cardinality(already_visited) < 3
  /\ other.already_visited = {} /\ other.to_visit = {Page1Url}

\* C30: minimum inter-request delay: any two requests that went through
\* get() of the one handler started at least delay_between_requests apart,
\* whichever threads made them.
MinRequestDelay ==
  \A i, j \in DOMAIN net.starts :
    i < j => net.starts[j] - net.starts[i] >= Delay

\* The requests of one thread, which are the delay apart.
OneThreadDelay ==
  \A t \in Threads :
    (net.calls[t] = Len(net.starts) /\ Len(net.starts) = MaxCalls) =>
      net.starts[2] - net.starts[1] >= Delay

\* C31: the depth budget is a hard cap: with max_depth = d > 0 the URLs
\* for which process_page passed the gate and started its page fetch in
\* the run are never more than d.
DepthHardCap ==
  job.max_depth > 0 => Cardinality(page_fetches) <= job.max_depth

\* The links of the seed's host found on the pages fetched in the run.
SeedHostLinks ==
  UNION {{l \in get_page_links(p, get_page_content(p)[1]) :
             extract_domain(l) = extract_domain(job.seed)} :
           p \in {q \in page_fetches : is_valid_html(get_page_content(q)[1])}}

\* C32: same-domain completeness: with the domain restriction on and the
\* depth budget not used up, every link of the seed's host found on a
\* fetched page has been fetched by the end of the run.
SameDomainComplete ==
  (/\ spc = "done" /\ job.restrict_domain
   /\ Cardinality(already_visited) < job.max_depth) =>
    SeedHostLinks \subseteq already_visited

RECURSIVE SumCounts(_, _)
SumCounts(count, types) ==
  IF types = {} THEN 0
  ELSE LET t == CHOOSE x \in types : TRUE
       IN count[t] + SumCounts(count, types \ {t})

\* C33: counter bound: at every point of a run the sum of resource_count
\* over the types is at most the number of URLs in already_visited.
CounterBound ==
  SumCounts(resource_count, Types) <= Cardinality(already_visited)

\* The URLs an increment of resource_count in this run stands for.
Counted == {x.url : x \in {y \in accepted : y.how = "stored"}}

\* C34: failed and persisted are exclusive outcomes: at the end of a run
\* no URL is both in failed_urls and counted in resource_count.
ExclusiveOutcomes == spc = "done" => Counted \cap failed_urls = {}

\* C35: the failure list is cleared by a successful retry: at the end of a
\* run started with retry_failed, a URL that the earlier run left as
\* failed and that this run fetched and took as saved is not in the
\* failed_urls.txt left on disk.
RetryClearsFailures ==
  (spc = "done" /\ job.retry_failed /\ previous # <<>>) =>
    \A u \in Counted \cap previous[1].failed_urls :
      u \notin load_failed_urls(failed_file)

\* C36: backend lifetime: whenever the network handler is closed and
\* cleared, on the normal and on the exceptional exit of the crawl loop,
\* no submitted task is waiting to start and no worker is inside
\* process_page.
BackendLifetime == ~network_handler => (queue = {} /\ ~Busy)

\* The crawl was left by an exception after more than one wave, and the
\* handler is closed with every task returned.
LateCloseWitness ==
  /\ spc = "raised" /\ ~network_handler
  /\ Cardinality(page_fetches) > 1 /\ ~Busy

\* --------------------------------------------------- calls out of turn
\* GrabHandler.__init__: the object before setup(). run 0 is the object
\* that was never set up.
Constructed(j) ==
  /\ job = j /\ run = 0
  /\ already_visited = {} /\ to_visit = {} /\ failed_urls = {}
  /\ resource_count = [t \in Types |-> 0]
  /\ network_handler = FALSE /\ browser_handler = "none"
  /\ disk = {} /\ failed_file = <<>>
  /\ spc = "new" /\ queue = {}
  /\ pc = [w \in Threads |-> "idle"] /\ cur = [w \in Threads |-> NoUrl]
  /\ content = [w \in Threads |-> EmptyBody]
  /\ resq = [w \in Threads |-> {}] /\ linkq = [w \in Threads |-> {}]
  /\ dl = [w \in Threads |-> NoDl]
  /\ fetches = NoCounts /\ claims = NoCounts /\ invoked = {}
  /\ pending_ever = {} /\ empty_pages = {}
  /\ written = {} /\ accepted = {} /\ previous = <<>>
  /\ page_fetches = {} /\ skipped = {}

\* GrabHandler.setup on the constructed object, whether or not crawl() was
\* called on it before.
SetupCall ==
  /\ spc \in {"new", "returned"}
  /\ run = 0
  /\ LET s == setup(job, 1, disk, failed_file) IN
       /\ run' = s.run
       /\ already_visited' = s.already_visited /\ to_visit' = s.to_visit
       /\ failed_urls' = s.failed_urls /\ resource_count' = s.resource_count
       /\ network_handler' = s.network_handler
       /\ browser_handler' = s.browser_handler
       /\ spc' = s.spc /\ queue' = s.queue /\ pc' = s.pc /\ cur' = s.cur
       /\ content' = s.content /\ resq' = s.resq /\ linkq' = s.linkq /\ dl' = s.dl
       /\ pending_ever' = s.pending_ever
  /\ UNCHANGED <<job, disk, failed_file, fetches, claims, invoked, empty_pages,
                 written, accepted, previous, page_fetches, skipped, classified, other, net>>

\* A crawl() that enters its loop whatever the state of the handler.
crawlUnguarded ==
  /\ spc \in {"new", "returned", "done", "raised"}
  /\ spc' = "loop"
  /\ UNCHANGED <<job, run, browser_handler, classified, other, net, frontier,
                 network_handler, disk, failed_file, queue, pc, locals, history>>

\* GrabHandler.crawl called when no crawl of the object is running: before
\* setup(), or after an earlier crawl() has ended. output_path is set by
\* setup() together with the handler and never cleared, so the test of
\* line 645 is the test of the handler.
crawl ==
  /\ spc \in {"new", "returned", "done", "raised"}
  /\ spc' = (IF ~network_handler THEN "returned" ELSE "loop")
  /\ UNCHANGED <<job, run, browser_handler, classified, other, net, frontier,
                 network_handler, disk, failed_file, queue, pc, locals, history>>

CallJobs == Jobs \cup ScenarioJobs \cup BrowserJobs
InitCalls ==
  /\ \E j \in CallJobs : Constructed(j)
  /\ classified = NoClassify
  /\ other = NewHandler
  /\ net = NoNet
NextCalls == NextAbort \/ SetupCall \/ crawl
SpecCalls == InitCalls /\ [][NextCalls]_vars

\* C37: while the object has no network handler (before setup(), or after a
\* crawl() has closed it), no step other than a setup() and the write that
\* ends the crawl which closed the handler issues a fetch, writes a file or
\* failed_urls.txt, or changes already_visited, to_visit, failed_urls or
\* resource_count: a crawl() called then returns with all of them as they
\* were.
UnconfiguredCrawlNoOp ==
  [][(~network_handler /\ spc # "save" /\ run' = run) =>
       UNCHANGED <<frontier, fetches, page_fetches, disk, failed_file>>]_vars

\* crawl() has been called a second time, after a crawl that fetched pages
\* and left failures and unvisited URLs behind, and has returned.
SecondCrawlWitness ==
  /\ spc = "returned" /\ ~network_handler
  /\ page_fetches # {} /\ to_visit # {} /\ failed_urls # {}

\* C38: a process_page call that is at its gate with a URL already in
\* already_visited returns there, and a call that returns at its gate,
\* for that or for the depth or the domain test, issues no fetch, writes
\* no file and leaves already_visited, to_visit, failed_urls and
\* resource_count unchanged.
GateRejectionNoOp ==
  [][\A w \in Workers :
       (pc[w] = "gate" /\ pc'[w] # "gate") =>
         /\ cur[w] \in already_visited => pc'[w] = "idle"
         /\ pc'[w] = "idle" =>
              UNCHANGED <<frontier, fetches, page_fetches, disk, failed_file>>]_vars

\* process_page has been called with a URL that was in already_visited
\* and has returned at its gate.
GateRejectionWitness ==
  \E x \in skipped : x.seen /\ pc = [w \in Threads |-> "idle"]

=============================================================================
